---------------------------- MODULE Spec2Model ----------------------------
(***************************************************************************)
(* Reverse-mode automatic differentiation over a dynamically built         *)
(* expression DAG (rust-autograd).  The repository holds several drafts of *)
(* the engine; each is modelled by its own actions over one shared graph:  *)
(*   - Var      (src/src/variable.rs): every handle owns the data_map and  *)
(*              grad_map filled by its own eval()/backward();              *)
(*   - Context  (src/src/context.rs, src/src/backward_funcs.rs): one       *)
(*              data_map and one gradient_map for all graphs.              *)
(* Numbers are integers: the f32/i32 values the tests use are small whole  *)
(* numbers, on which +, * are exact.                                       *)
(***************************************************************************)
EXTENDS Integers, Sequences, FiniteSets, TLC

\* ------------------------------------------------------------------ bounds
MaxLeaves == 2
MaxOps == 2
\* ops of a graph where only the order of the traversals is looked at
MaxOrderOps == 3
\* set_requires_grad calls in one run
MaxSets == 2
\* eval_graph / value_of / backward calls on one Context in one run
MaxCalls == 2
\* leaf values a caller passes to Var::new / Context::var
Vals == {2, 3}

VARIABLES
    leaves,     \* leaf handles in creation order: [data, requires_grad]
    ops,        \* op handles in creation order: [var_type, l, r, lrg, rrg, requires_grad]
    root,       \* Var: the handle eval()/backward() was last called on (0: none yet)
    data_map,   \* Var: that handle's data_map, << >> (None) or <<m>> (Some(m)), m: id -> value
    grad_map,   \* Var: that handle's grad_map, << >> (None) or <<m>> (Some(m)), m: id -> gradient
    bw_trace,   \* Var: the ids of the nodes whose backward_fn the last backward() on
                \* that handle called, in call order
    nsets,      \* number of set_requires_grad calls made so far
    ctx_data_map,   \* Context.data_map: id -> value
    gradient_map,   \* Context.gradient_map: id -> gradient
    evaluated,      \* Context.evaluated
    ctx_last,       \* the last call made on the Context and its root: [call, root],
                    \* call "eval_graph" (also for value_of) or "backward"
    ncalls,         \* number of eval_graph/value_of/backward calls made so far
    handles,    \* Var, every handle: [data_map, evaluated, called]; data_map is << >>
                \* or <<m>>, called tells that eval() or val() was called on it
    last_sort,  \* the last topological sort asked for: [entry, allow_revisit, var, ctx],
                \* var and ctx the ids in the order Var and Context return them
    nd,             \* tensor draft: one op node z = x op y over two leaves,
                    \* [pc, op, x, y, xrg, yrg, z, xgrad, ygrad]
    panicked    \* an unwrap() on None, a missing index or a division by zero
                \* aborted the program

\* A handle's data_map and grad_map are written only by eval()/backward() on
\* that handle, from the handle's own immutable deps; the maps of the handle
\* last called are the ones kept here.
var_vars == <<root, data_map, grad_map, bw_trace>>
ctx_vars == <<ctx_data_map, gradient_map, evaluated, ctx_last, ncalls>>
vars == <<leaves, ops, nsets, panicked, var_vars, ctx_vars, nd, handles, last_sort>>

\* ------------------------------------------------------------------- graph
\* A node is named by its id (a uuid in the code): leaf i has id i, the
\* j-th op has id MaxLeaves + j.
LeafIds == 1..Len(leaves)
OpIds == {MaxLeaves + j : j \in 1..Len(ops)}
Ids == LeafIds \cup OpIds
AllIds == 1..(MaxLeaves + (IF MaxOrderOps > MaxOps THEN MaxOrderOps ELSE MaxOps))

IsOp(n) == n > MaxLeaves
Op(n) == ops[n - MaxLeaves]

\* Var.requires_grad of the handle the caller holds
requires_grad(n) == IF IsOp(n) THEN Op(n).requires_grad ELSE leaves[n].requires_grad

\* deps that look at the operand handles' flags of the moment
deps_live(n) ==
    IF IsOp(n)
    THEN << [id |-> Op(n).l, requires_grad |-> requires_grad(Op(n).l)],
            [id |-> Op(n).r, requires_grad |-> requires_grad(Op(n).r)] >>
    ELSE << >>

\* Var.deps: the copies taken by bin_op; a copy keeps the id and the
\* requires_grad the operand had when the op was built.
deps(n) ==
    IF IsOp(n)
    THEN << [id |-> Op(n).l, requires_grad |-> Op(n).lrg],
            [id |-> Op(n).r, requires_grad |-> Op(n).rrg] >>
    ELSE << >>

\* Var::new
VarNew(data) == [data |-> data, requires_grad |-> FALSE]

bin_op_and(self, other, var_type) ==
    [var_type |-> var_type, l |-> self, r |-> other,
     lrg |-> requires_grad(self), rrg |-> requires_grad(other),
     requires_grad |-> requires_grad(self) /\ requires_grad(other)]

\* Var::bin_op: requires_grad is the OR of the operands' flags at this moment
bin_op(self, other, var_type) ==
    [var_type |-> var_type, l |-> self, r |-> other,
     lrg |-> requires_grad(self), rrg |-> requires_grad(other),
     requires_grad |-> requires_grad(self) \/ requires_grad(other)]

\* ValueMap::get_by_id / set_by_id over a map m : id -> value
Has(m, id) == id \in DOMAIN m
set_by_id(m, id, val) == [k \in (DOMAIN m) \cup {id} |-> IF k = id THEN val ELSE m[k]]
EmptyMap == [k \in {} |-> 0]

Reverse(s) == [i \in 1..Len(s) |-> s[Len(s) + 1 - i]]

\* HasGrad for f32
get_zero_grad(x) == 0
get_default_init_grad(x) == 1

\* --------------------------------------------------- Var (variable.rs)
\* a walk that explores the right operand first
RECURSIVE dfs_right_first(_, _, _)
dfs_right_first(variable, st, allow_revisit) ==
    IF allow_revisit \/ variable \notin st.visited
    THEN LET s0 == [visited |-> st.visited \cup {variable}, stack |-> st.stack]
             s2 == IF IsOp(variable)
                   THEN dfs_right_first(Op(variable).l,
                            dfs_right_first(Op(variable).r, s0, allow_revisit),
                            allow_revisit)
                   ELSE s0
         IN [visited |-> s2.visited, stack |-> Append(s2.stack, variable)]
    ELSE st

\* Var::dfs: post-order walk; st = [visited, stack]
RECURSIVE dfs(_, _, _)
dfs(variable, st, allow_revisit) ==
    IF allow_revisit \/ variable \notin st.visited
    THEN LET s0 == [visited |-> st.visited \cup {variable}, stack |-> st.stack]
             s2 == IF IsOp(variable)
                   THEN dfs(Op(variable).r, dfs(Op(variable).l, s0, allow_revisit),
                            allow_revisit)
                   ELSE s0
         IN [visited |-> s2.visited, stack |-> Append(s2.stack, variable)]
    ELSE st

\* Var::topological_sort
topological_sort(entry, allow_revisit) ==
    dfs(entry, [visited |-> {}, stack |-> << >>], allow_revisit).stack

\* Var::eval_bin_op; the operands' values are in dm by post-order
eval_bin_op(parent, dm) ==
    LET ldata == dm[Op(parent).l]
        rdata == dm[Op(parent).r]
        data == IF Op(parent).var_type = "OpAdd" THEN ldata + rdata ELSE ldata * rdata
    IN set_by_id(dm, parent, data)

\* the loop of Var::eval over the sorted nodes
RECURSIVE eval_loop(_, _, _)
eval_loop(sorted, i, dm) ==
    IF i > Len(sorted) THEN dm
    ELSE LET var == sorted[i]
         IN eval_loop(sorted, i + 1,
                IF IsOp(var) THEN eval_bin_op(var, dm)
                ELSE set_by_id(dm, var, leaves[var].data))

\* Var::eval: the data_map the handle holds afterwards
eval(self) == eval_loop(topological_sort(self, FALSE), 1, EmptyMap)

\* add_backward / mul_backward of variable.rs, for one operand:
\* local is the factor the parent's gradient is multiplied with.
\* g = [map, panicked, calls]: the grad_map, whether an unwrap() failed, and
\* the nodes whose handler ran so far
operand_backward(dep, dm, g, parent_grad, local) ==
    IF dep.requires_grad
    THEN LET cur == IF Has(g.map, dep.id) THEN g.map[dep.id]
                    ELSE get_zero_grad(dm[dep.id])
         IN [g EXCEPT !.map = set_by_id(g.map, dep.id, cur + parent_grad * local)]
    ELSE g

add_backward(d, dm, g, parent_grad) ==
    operand_backward(d[2], dm, operand_backward(d[1], dm, g, parent_grad, 1),
                     parent_grad, 1)

mul_backward_own_data(d, dm, g, parent_grad) ==
    operand_backward(d[2], dm,
                     operand_backward(d[1], dm, g, parent_grad, dm[d[1].id]),
                     parent_grad, dm[d[2].id])

mul_backward(d, dm, g, parent_grad) ==
    operand_backward(d[2], dm,
                     operand_backward(d[1], dm, g, parent_grad, dm[d[2].id]),
                     parent_grad, dm[d[1].id])

\* the traversal mode Var::backward asks of topological_sort
BackwardAllowRevisit == TRUE

\* the loop of Var::backward over the reversed sort
RECURSIVE backward_loop(_, _, _, _, _)
backward_loop(self, sorted, i, dm, g) ==
    IF i > Len(sorted) \/ g.panicked THEN g
    ELSE LET var == sorted[i]
         IN IF ~IsOp(var) THEN backward_loop(self, sorted, i + 1, dm, g)
            ELSE IF var # self /\ ~Has(g.map, var)
            THEN [g EXCEPT !.panicked = TRUE]
            ELSE LET grad == IF var = self THEN get_default_init_grad(dm[var])
                             ELSE g.map[var]
                     g1 == IF Op(var).var_type = "OpAdd"
                           THEN add_backward(deps(var), dm, g, grad)
                           ELSE mul_backward(deps(var), dm, g, grad)
                 IN backward_loop(self, sorted, i + 1, dm,
                                  [g1 EXCEPT !.calls = Append(@, var)])

\* Var::backward: [map, panicked, calls] after the call
backward(self) ==
    backward_loop(self, Reverse(topological_sort(self, BackwardAllowRevisit)), 1,
                  eval(self), [map |-> EmptyMap, panicked |-> FALSE, calls |-> << >>])

\* Var::grad_wrt on the root: << >> is None, <<g>> is Some(g)
grad_wrt(var) ==
    IF grad_map = << >> THEN << >>
    ELSE IF Has(grad_map[1], var) THEN << grad_map[1][var] >> ELSE << >>

\* no sort asked for yet
NoSort == [entry |-> 0, allow_revisit |-> FALSE, var |-> << >>, ctx |-> << >>]

\* the handles as bin_op and new make them: data_map None, not evaluated
NoHandles == [n \in AllIds |-> [data_map |-> << >>, evaluated |-> FALSE, called |-> FALSE]]

\* ----------------------------------------------------------------- actions
Init ==
    /\ leaves = << >>
    /\ ops = << >>
    /\ root = 0
    /\ data_map = << >>
    /\ grad_map = << >>
    /\ bw_trace = << >>
    /\ nsets = 0
    /\ panicked = FALSE
    /\ ctx_data_map = EmptyMap
    /\ gradient_map = EmptyMap
    /\ evaluated = FALSE
    /\ ctx_last = [call |-> "none", root |-> 0]
    /\ ncalls = 0
    /\ handles = NoHandles
    /\ last_sort = NoSort
    /\ nd = [pc |-> "none"]

\* Var::new
New ==
    /\ ~panicked
    /\ Len(leaves) < MaxLeaves
    /\ \E v \in Vals : leaves' = Append(leaves, VarNew(v))
    /\ UNCHANGED <<ops, nsets, panicked, var_vars, ctx_vars, nd, handles, last_sort>>

\* Var::set_requires_grad: the flag of the handle is overwritten, whatever
\* is_leaf says; copies already taken by ops keep their flag.
set_requires_grad(n, val) ==
    IF IsOp(n)
    THEN /\ ops' = [ops EXCEPT ![n - MaxLeaves].requires_grad = val]
         /\ UNCHANGED leaves
    ELSE /\ leaves' = [leaves EXCEPT ![n].requires_grad = val]
         /\ UNCHANGED ops

SetRequiresGrad ==
    /\ ~panicked
    /\ nsets < MaxSets
    /\ \E n \in Ids, val \in BOOLEAN :
        /\ requires_grad(n) # val      \* calls that change nothing are left out
        /\ set_requires_grad(n, val)
    /\ nsets' = nsets + 1
    /\ UNCHANGED <<panicked, var_vars, ctx_vars, nd, handles, last_sort>>

\* Var::add
VarAdd ==
    /\ ~panicked
    /\ Len(ops) < MaxOps
    /\ \E self \in Ids, other \in Ids : ops' = Append(ops, bin_op(self, other, "OpAdd"))
    /\ UNCHANGED <<leaves, nsets, panicked, var_vars, ctx_vars, nd, handles, last_sort>>

\* Var::mul
VarMul ==
    /\ ~panicked
    /\ Len(ops) < MaxOps
    /\ \E self \in Ids, other \in Ids : ops' = Append(ops, bin_op(self, other, "OpMul"))
    /\ UNCHANGED <<leaves, nsets, panicked, var_vars, ctx_vars, nd, handles, last_sort>>

\* Var::eval
VarEval ==
    /\ ~panicked
    /\ \E self \in Ids :
        /\ root' = self
        /\ data_map' = << eval(self) >>
        /\ grad_map' = IF self = root THEN grad_map ELSE << >>
        /\ bw_trace' = IF self = root THEN bw_trace ELSE << >>
    /\ UNCHANGED <<leaves, ops, nsets, panicked, ctx_vars, nd, handles, last_sort>>

\* Var::backward
VarBackward ==
    /\ ~panicked
    /\ \E self \in Ids :
        LET g == backward(self)
        IN /\ root' = self
           /\ data_map' = << eval(self) >>
           /\ grad_map' = << g.map >>
           /\ bw_trace' = g.calls
           /\ panicked' = g.panicked
    /\ UNCHANGED <<leaves, ops, nsets, ctx_vars, nd, handles, last_sort>>

\* Var::eval on a handle hd of node self
eval_handle(hd, self) ==
    [hd EXCEPT !.data_map = << eval(self) >>, !.evaluated = TRUE, !.called = TRUE]

\* val that evaluates when the handle is already evaluated
var_val_inverted(hd, self) ==
    IF hd.evaluated THEN eval_handle(hd, self) ELSE [hd EXCEPT !.called = TRUE]

\* Var::val: evaluates unless the handle is evaluated already
var_val(hd, self) ==
    IF ~hd.evaluated THEN eval_handle(hd, self) ELSE [hd EXCEPT !.called = TRUE]

\* what val returns: data_map.get_by_id(self.id), << >> for None
val_result(hd, self) ==
    IF hd.data_map = << >> THEN << >>
    ELSE IF Has(hd.data_map[1], self) THEN << hd.data_map[1][self] >> ELSE << >>

EvalFrame == UNCHANGED <<leaves, ops, nsets, panicked, var_vars, ctx_vars, nd, last_sort>>

\* Var::eval, every handle keeping its own data_map
Eval ==
    /\ ~panicked
    /\ \E self \in Ids : handles' = [handles EXCEPT ![self] = eval_handle(handles[self], self)]
    /\ EvalFrame

\* Var::val
Val ==
    /\ ~panicked
    /\ \E self \in Ids : handles' = [handles EXCEPT ![self] = var_val(handles[self], self)]
    /\ EvalFrame

NextEval == New \/ VarAdd \/ VarMul \/ Eval \/ Val

SpecEval == Init /\ [][NextEval]_vars

\* Var::new, for the larger graphs of the traversal checks: the order of a
\* traversal does not read the data
OrderVals == {2}
OrderNew ==
    /\ ~panicked
    /\ Len(leaves) < MaxLeaves
    /\ \E v \in OrderVals : leaves' = Append(leaves, VarNew(v))
    /\ UNCHANGED <<ops, nsets, panicked, var_vars, ctx_vars, nd, handles, last_sort>>

\* Var::add, for the larger graphs of the traversal checks
OrderAdd ==
    /\ ~panicked
    /\ Len(ops) < MaxOrderOps
    /\ \E self \in Ids, other \in Ids : ops' = Append(ops, bin_op(self, other, "OpAdd"))
    /\ UNCHANGED <<leaves, nsets, panicked, var_vars, ctx_vars, nd, handles, last_sort>>

NextOrder == OrderNew \/ SetRequiresGrad \/ OrderAdd \/ VarBackward

SpecOrder == Init /\ [][NextOrder]_vars

NextVar == New \/ SetRequiresGrad \/ VarAdd \/ VarMul \/ VarEval \/ VarBackward

SpecVar == Init /\ [][NextVar]_vars


\* ------------------------- Context (context.rs, backward_funcs.rs)
\* The Variable type of this draft is not among the sources; what context.rs
\* and its tests use of it is modelled here: a handle with data_id, deps
\* (copies of the operands), var_type, requires_grad and backward_fn.

\* Variable::default(), as Context::var uses it: a leaf that requires no gradient
variable_default(data) == [data |-> data, requires_grad |-> FALSE]

\* Variable::add / sub / mul / div (and &x + &y): requires_grad is the OR of
\* the operands' flags, the operands are kept in the order given
variable_bin_op(self, other, var_type) ==
    [var_type |-> var_type, l |-> self, r |-> other,
     lrg |-> requires_grad(self), rrg |-> requires_grad(other),
     requires_grad |-> requires_grad(self) \/ requires_grad(other)]

\* Variable.backward_fn: backward_funcs.rs has handlers for add and mul only
has_backward_fn(n) == IsOp(n) /\ Op(n).var_type \in {"OpAdd", "OpMul"}

\* the handle itself, as passed by reference to the Context
handle(n) == [id |-> n, requires_grad |-> requires_grad(n)]

\* i32 division: truncates toward zero
i32_div(a, b) ==
    IF (a >= 0) = (b > 0) THEN (IF a >= 0 THEN a \div b ELSE (-a) \div (-b))
    ELSE (IF a >= 0 THEN -(a \div (-b)) ELSE -((-a) \div b))

\* the closures eval_graph passes to handle_binop
apply_op(var_type, a, b) ==
    CASE var_type = "OpAdd" -> a + b
      [] var_type = "OpSub" -> a - b
      [] var_type = "OpMul" -> a * b
      [] var_type = "OpDiv" -> i32_div(a, b)

\* handle_binop handing the operands to the closure in the other order
handle_binop_swapped(c, var) ==
    LET lval == c.data_map[Op(var).l]
        rval == c.data_map[Op(var).r]
    IN IF Op(var).var_type = "OpDiv" /\ lval = 0
       THEN [c EXCEPT !.panicked = TRUE]
       ELSE [c EXCEPT !.data_map =
                set_by_id(c.data_map, var, apply_op(Op(var).var_type, rval, lval))]

\* Context::handle_binop; c = [data_map, gradient_map, panicked]
handle_binop(c, var) ==
    LET lval == c.data_map[Op(var).l]
        rval == c.data_map[Op(var).r]
    IN IF Op(var).var_type = "OpDiv" /\ rval = 0
       THEN [c EXCEPT !.panicked = TRUE]
       ELSE [c EXCEPT !.data_map =
                set_by_id(c.data_map, var, apply_op(Op(var).var_type, lval, rval))]

\* a helper that returns at a visited node in either mode
RECURSIVE topological_sort_helper_visited(_, _, _)
topological_sort_helper_visited(variable, st, allow_revisit) ==
    IF variable.id \in st.visited THEN st
    ELSE LET s0 == [visited |-> st.visited \cup {variable.id}, stack |-> st.stack]
             d == deps(variable.id)
             s2 == IF IsOp(variable.id)
                   THEN topological_sort_helper_visited(d[2],
                            topological_sort_helper_visited(d[1], s0, allow_revisit),
                            allow_revisit)
                   ELSE s0
         IN [visited |-> s2.visited, stack |-> Append(s2.stack, variable)]

\* Context::topological_sort_helper: st = [visited, stack], the stack holds
\* the copies met (the root handle, then operand copies)
RECURSIVE topological_sort_helper(_, _, _)
topological_sort_helper(variable, st, allow_revisit) ==
    IF ~allow_revisit /\ variable.id \in st.visited THEN st
    ELSE LET s0 == [visited |-> st.visited \cup {variable.id}, stack |-> st.stack]
             d == deps(variable.id)
             s2 == IF IsOp(variable.id)
                   THEN topological_sort_helper(d[2],
                            topological_sort_helper(d[1], s0, allow_revisit),
                            allow_revisit)
                   ELSE s0
         IN [visited |-> s2.visited, stack |-> Append(s2.stack, variable)]

\* Context::topological_sort
ctx_topological_sort(entry, allow_revisit) ==
    topological_sort_helper(entry, [visited |-> {}, stack |-> << >>], allow_revisit).stack

\* the loop of Context::eval_graph
RECURSIVE eval_graph_loop(_, _, _)
eval_graph_loop(sorted, i, c) ==
    IF i > Len(sorted) \/ c.panicked THEN c
    ELSE LET var == sorted[i]
             c1 == IF IsOp(var.id) THEN handle_binop(c, var.id) ELSE c
             c2 == IF c1.panicked \/ ~var.requires_grad THEN c1
                   ELSE IF ~Has(c1.data_map, var.id) THEN [c1 EXCEPT !.panicked = TRUE]
                   ELSE [c1 EXCEPT !.gradient_map =
                            set_by_id(c1.gradient_map, var.id,
                                      get_zero_grad(c1.data_map[var.id]))]
         IN eval_graph_loop(sorted, i + 1, c2)

\* Context::eval_graph
eval_graph(c, r) == eval_graph_loop(ctx_topological_sort(handle(r), FALSE), 1, c)

\* an operand update that stores the local gradient instead of adding it
ctx_operand_backward_overwrite(c, dep, parent_grad, is_mul, other) ==
    IF c.panicked \/ ~dep.requires_grad THEN c
    ELSE IF is_mul /\ ~Has(c.data_map, other) THEN [c EXCEPT !.panicked = TRUE]
    ELSE IF ~Has(c.gradient_map, dep.id) THEN [c EXCEPT !.panicked = TRUE]
    ELSE LET local_grad == IF is_mul THEN parent_grad * c.data_map[other]
                           ELSE parent_grad
         IN [c EXCEPT !.gradient_map = set_by_id(c.gradient_map, dep.id, local_grad)]

\* backward_funcs.rs add_backward / mul_backward, for one operand; for mul,
\* other is the id of the other operand, whose value is the local factor
ctx_operand_backward(c, dep, parent_grad, is_mul, other) ==
    IF c.panicked \/ ~dep.requires_grad THEN c
    ELSE IF is_mul /\ ~Has(c.data_map, other) THEN [c EXCEPT !.panicked = TRUE]
    ELSE IF ~Has(c.gradient_map, dep.id) THEN [c EXCEPT !.panicked = TRUE]
    ELSE LET local_grad == IF is_mul THEN parent_grad * c.data_map[other]
                           ELSE parent_grad
         IN [c EXCEPT !.gradient_map =
                set_by_id(c.gradient_map, dep.id, c.gradient_map[dep.id] + local_grad)]

ctx_add_backward(c, parent) ==
    IF ~Has(c.gradient_map, parent) THEN [c EXCEPT !.panicked = TRUE]
    ELSE LET parent_grad == c.gradient_map[parent]
             d == deps(parent)
         IN ctx_operand_backward(ctx_operand_backward(c, d[1], parent_grad, FALSE, 0),
                                 d[2], parent_grad, FALSE, 0)

ctx_mul_backward(c, parent) ==
    IF ~Has(c.gradient_map, parent) THEN [c EXCEPT !.panicked = TRUE]
    ELSE LET parent_grad == c.gradient_map[parent]
             d == deps(parent)
         IN ctx_operand_backward(
                ctx_operand_backward(c, d[1], parent_grad, TRUE, d[2].id),
                d[2], parent_grad, TRUE, d[1].id)

\* the loop of Context::backward over the reversed sort
RECURSIVE ctx_backward_loop(_, _, _)
ctx_backward_loop(sorted, i, c) ==
    IF i > Len(sorted) \/ c.panicked THEN c
    ELSE LET var == sorted[i].id
             c1 == IF ~has_backward_fn(var) THEN c
                   ELSE IF Op(var).var_type = "OpAdd" THEN ctx_add_backward(c, var)
                   ELSE ctx_mul_backward(c, var)
         IN ctx_backward_loop(sorted, i + 1, c1)

\* the gradient Context::backward seeds the root with
get_initial_grad(x) == 1

\* Context::backward
ctx_backward(c, r) ==
    LET c1 == eval_graph(c, r)
    IN IF c1.panicked THEN c1
       ELSE IF ~Has(c1.data_map, r) THEN [c1 EXCEPT !.panicked = TRUE]
       ELSE ctx_backward_loop(
                Reverse(ctx_topological_sort(handle(r), FALSE)), 1,
                [c1 EXCEPT !.gradient_map =
                    set_by_id(c1.gradient_map, r, get_initial_grad(c1.data_map[r]))])

\* the ids of a sequence of copies
IdsOf(stack) == [i \in 1..Len(stack) |-> stack[i].id]

\* Var::topological_sort and Context::topological_sort from entry
TopoSort ==
    /\ ~panicked
    /\ \E entry \in Ids, allow_revisit \in BOOLEAN :
        last_sort' = [entry |-> entry, allow_revisit |-> allow_revisit,
                   var |-> topological_sort(entry, allow_revisit),
                   ctx |-> IdsOf(ctx_topological_sort(handle(entry), allow_revisit))]
    /\ UNCHANGED <<leaves, ops, nsets, panicked, var_vars, ctx_vars, nd, handles>>

NextSort == OrderNew \/ OrderAdd \/ TopoSort

SpecSort == Init /\ [][NextSort]_vars

\* the Context as a record, and a call's outcome written back
Ctx == [data_map |-> ctx_data_map, gradient_map |-> gradient_map, panicked |-> FALSE]

CtxCall(c, call, r) ==
    /\ ncalls < MaxCalls
    /\ ncalls' = ncalls + 1
    /\ ctx_data_map' = c.data_map
    /\ gradient_map' = c.gradient_map
    /\ panicked' = c.panicked
    /\ evaluated' = (evaluated \/ ~c.panicked)
    /\ ctx_last' = [call |-> call, root |-> r]
    /\ UNCHANGED <<leaves, ops, nsets, var_vars, nd, handles, last_sort>>

\* Context::var
CtxVar ==
    /\ ~panicked
    /\ Len(leaves) < MaxLeaves
    /\ \E data \in Vals :
        /\ leaves' = Append(leaves, variable_default(data))
        /\ ctx_data_map' = set_by_id(ctx_data_map, Len(leaves) + 1, data)
    /\ UNCHANGED <<ops, nsets, panicked, var_vars, gradient_map, evaluated, ctx_last, ncalls, nd, handles, last_sort>>

\* x.requires_grad = val: the field is public and the tests write it
CtxSetRequiresGrad ==
    /\ ~panicked
    /\ nsets < MaxSets
    /\ \E n \in Ids, val \in BOOLEAN :
        /\ requires_grad(n) # val
        /\ set_requires_grad(n, val)
    /\ nsets' = nsets + 1
    /\ UNCHANGED <<panicked, var_vars, ctx_vars, nd, handles, last_sort>>

CtxBinOp(var_type) ==
    /\ ~panicked
    /\ Len(ops) < MaxOps
    /\ \E self \in Ids, other \in Ids :
        ops' = Append(ops, variable_bin_op(self, other, var_type))
    /\ UNCHANGED <<leaves, nsets, panicked, var_vars, ctx_vars, nd, handles, last_sort>>

CtxAdd == CtxBinOp("OpAdd")
CtxSub == CtxBinOp("OpSub")
CtxMul == CtxBinOp("OpMul")
CtxDiv == CtxBinOp("OpDiv")

\* Context::eval_graph
CtxEvalGraph ==
    /\ ~panicked
    /\ \E r \in Ids : CtxCall(eval_graph(Ctx, r), "eval_graph", r)

\* Context::value_of: eval_graph, then the root's value is read
CtxValueOf ==
    /\ ~panicked
    /\ \E r \in Ids :
        LET c == eval_graph(Ctx, r)
        IN CtxCall(IF ~c.panicked /\ ~Has(c.data_map, r)
                   THEN [c EXCEPT !.panicked = TRUE] ELSE c, "eval_graph", r)

\* Context::backward
CtxBackward ==
    /\ ~panicked
    /\ \E r \in Ids : CtxCall(ctx_backward(Ctx, r), "backward", r)

\* graphs of add and mul nodes, with gradients
NextCtx ==
    CtxVar \/ CtxSetRequiresGrad \/ CtxAdd \/ CtxMul
        \/ CtxEvalGraph \/ CtxValueOf \/ CtxBackward

SpecCtx == Init /\ [][NextCtx]_vars

\* forward evaluation of graphs of all four op kinds; requires_grad and
\* backward write gradient_map only and are left out
NextCtxEval ==
    CtxVar \/ CtxAdd \/ CtxSub \/ CtxMul \/ CtxDiv \/ CtxEvalGraph \/ CtxValueOf

SpecCtxEval == Init /\ [][NextCtxEval]_vars

\* ------------- tensors (traits_ndarray.rs, backward_basic_ops.rs)
\* An NDArray is [shape, v]: v maps each index (a tuple of 0-based
\* positions, one per axis) to the element.  The elementwise operators are
\* ndarray's, which broadcast the two operands to their common shape.
Extents == 0..2
Indices(shape) ==
    {i \in [1..Len(shape) -> Extents] : \A k \in 1..Len(shape) : i[k] < shape[k]}

ndim(a) == Len(a.shape)

\* extent of axis k (counted from the last axis, 0-based) or 1 when absent
ExtentFromEnd(shape, k) == IF k < Len(shape) THEN shape[Len(shape) - k] ELSE 1

Max(a, b) == IF a >= b THEN a ELSE b

BroadcastOk(sa, sb) ==
    \A k \in 0..(Max(Len(sa), Len(sb)) - 1) :
        \/ ExtentFromEnd(sa, k) = ExtentFromEnd(sb, k)
        \/ ExtentFromEnd(sa, k) = 1
        \/ ExtentFromEnd(sb, k) = 1

BroadcastShape(sa, sb) ==
    LET n == Max(Len(sa), Len(sb))
    IN [k \in 1..n |-> Max(ExtentFromEnd(sa, n - k), ExtentFromEnd(sb, n - k))]

\* the index of operand `shape` that index i of the broadcast result reads
Project(i, shape) ==
    LET off == Len(i) - Len(shape)
    IN [k \in 1..Len(shape) |-> IF shape[k] = 1 THEN 0 ELSE i[k + off]]

\* impl Add / Sub / Mul for NDArray; Bad when the shapes do not broadcast
\* (ndarray panics)
Bad == [shape |-> << >>, v |-> << >>, bad |-> TRUE]
Tensor(shape, v) == [shape |-> shape, v |-> v, bad |-> FALSE]

nd_binop(a, b, op) ==
    IF a.bad \/ b.bad \/ ~BroadcastOk(a.shape, b.shape) THEN Bad
    ELSE LET sh == BroadcastShape(a.shape, b.shape)
         IN Tensor(sh, [i \in Indices(sh) |->
                LET x == a.v[Project(i, a.shape)]
                    y == b.v[Project(i, b.shape)]
                IN CASE op = "add" -> x + y
                     [] op = "sub" -> x - y
                     [] op = "mul" -> x * y])

nd_add(a, b) == nd_binop(a, b, "add")
nd_sub(a, b) == nd_binop(a, b, "sub")
nd_mul(a, b) == nd_binop(a, b, "mul")

\* impl Div for NDArray: the body calls mul
nd_div(a, b) == nd_binop(a, b, "mul")

\* impl HasGrad for NDArray
nd_get_zero_grad(a) == Tensor(a.shape, [i \in Indices(a.shape) |-> 0])
nd_get_default_init_grad(a) == Tensor(a.shape, [i \in Indices(a.shape) |-> 1])

RECURSIVE SumSeq(_, _, _)
SumSeq(f, lo, hi) == IF lo > hi THEN 0 ELSE f[lo] + SumSeq(f, lo + 1, hi)

\* impl Reduce for NDArray, sum_axis: ndarray removes the summed axis and
\* panics when the array has no such axis
sum_axis(a, axis) ==
    IF a.bad \/ axis >= ndim(a) THEN Bad
    ELSE LET sh == [k \in 1..(ndim(a) - 1) |->
                       IF k <= axis THEN a.shape[k] ELSE a.shape[k + 1]]
             Full(i, j) == [k \in 1..ndim(a) |->
                               IF k <= axis THEN i[k]
                               ELSE IF k = axis + 1 THEN j ELSE i[k - 1]]
         IN Tensor(sh, [i \in Indices(sh) |->
                SumSeq([j \in 0..(a.shape[axis + 1] - 1) |-> a.v[Full(i, j)]],
                       0, a.shape[axis + 1] - 1)])

\* compute_broadcasted_gradients: the first loop sums axis ndims_added,
\* ndims_added times
RECURSIVE sum_added(_, _, _)
sum_added(g, ndims_added, left) ==
    IF left = 0 THEN g ELSE sum_added(sum_axis(g, ndims_added), ndims_added, left - 1)

RECURSIVE sum_broadcasted(_, _, _)
sum_broadcasted(g, data, i) ==
    IF i >= ndim(data) THEN g
    ELSE sum_broadcasted(IF data.shape[i + 1] = 1 THEN sum_axis(g, i) ELSE g, data, i + 1)

compute_broadcasted_gradients(data, parent_grad) ==
    LET ndims_added == ndim(parent_grad) - ndim(data)
    IN sum_broadcasted(sum_added(parent_grad, ndims_added, ndims_added), data, 0)

\* dep.grad().unwrap_or(dep.data().get_zero_grad()); a grad is << >> or <<g>>
grad_or_zero(grad, data) == IF grad = << >> THEN nd_get_zero_grad(data) ELSE grad[1]

\* impl Dot for NDArray: rank-2 operands only; ndarray's dot panics when the
\* inner extents differ
nd_dot(a, b) ==
    IF a.bad \/ b.bad \/ ndim(a) # 2 \/ ndim(b) # 2 THEN Bad
    ELSE IF a.shape[2] # b.shape[1] THEN Bad
    ELSE LET sh == <<a.shape[1], b.shape[2]>>
         IN Tensor(sh, [i \in Indices(sh) |->
                SumSeq([j \in 0..(a.shape[2] - 1) |-> a.v[<<i[1], j>>] * b.v[<<j, i[2]>>]],
                       0, a.shape[2] - 1)])

\* impl Transpose for NDArray
nd_t(a) ==
    IF a.bad \/ ndim(a) # 2 THEN Bad
    ELSE LET sh == <<a.shape[2], a.shape[1]>>
         IN Tensor(sh, [i \in Indices(sh) |-> a.v[<<i[2], i[1]>>]])

\* backward_basic_ops.rs add_backward; t is the state of the op node
nd_add_backward(t, parent_grad) ==
    LET t1 == IF t.xrg
              THEN [t EXCEPT !.xgrad =
                      << nd_add(grad_or_zero(t.xgrad, t.x),
                                compute_broadcasted_gradients(t.x, parent_grad)) >>]
              ELSE t
    IN IF t.yrg
       THEN [t1 EXCEPT !.ygrad =
               << nd_add(grad_or_zero(t1.ygrad, t.y),
                         compute_broadcasted_gradients(t.y, parent_grad)) >>]
       ELSE t1

\* backward_basic_ops.rs sub_backward
nd_sub_backward(t, parent_grad) ==
    LET t1 == IF t.xrg
              THEN [t EXCEPT !.xgrad = << nd_add(grad_or_zero(t.xgrad, t.x), parent_grad) >>]
              ELSE t
    IN IF t.yrg
       THEN [t1 EXCEPT !.ygrad = << nd_sub(grad_or_zero(t1.ygrad, t.y), parent_grad) >>]
       ELSE t1

\* backward_basic_ops.rs mul_backward
nd_mul_backward(t, parent_grad) ==
    LET t1 == IF t.xrg
              THEN [t EXCEPT !.xgrad =
                      << nd_add(grad_or_zero(t.xgrad, t.x), nd_mul(parent_grad, t.y)) >>]
              ELSE t
    IN IF t.yrg
       THEN [t1 EXCEPT !.ygrad =
               << nd_add(grad_or_zero(t1.ygrad, t.y), nd_mul(parent_grad, t.x)) >>]
       ELSE t1

\* backward_linalg_ops.rs dot_backward: the left operand's missing grad is
\* initialised from the right operand's data
nd_dot_backward(t, parent_grad) ==
    LET t1 == IF t.xrg
              THEN [t EXCEPT !.xgrad =
                      << nd_add(grad_or_zero(t.xgrad, t.y), nd_dot(parent_grad, nd_t(t.y))) >>]
              ELSE t
    IN IF t.yrg
       THEN [t1 EXCEPT !.ygrad =
               << nd_add(grad_or_zero(t1.ygrad, t.y), nd_dot(nd_t(t.x), parent_grad)) >>]
       ELSE t1

\* The Var of this draft (data(), grad(), set_grad(), eval(), backward())
\* is not among the sources; eval and backward follow the
\* design's sections 4.3 and 4.4 for a root z = x op y.
nd_eval(t) ==
    [t EXCEPT !.z = << IF t.op = "dot" THEN nd_dot(t.x, t.y) ELSE nd_binop(t.x, t.y, t.op) >>,
              !.pc = "evaluated"]

nd_backward(t) ==
    LET e == nd_eval(t)
        seed == nd_get_default_init_grad(e.z[1])
        b == CASE t.op = "add" -> nd_add_backward(e, seed)
               [] t.op = "sub" -> nd_sub_backward(e, seed)
               [] t.op = "mul" -> nd_mul_backward(e, seed)
               [] t.op = "dot" -> nd_dot_backward(e, seed)
    IN IF e.z[1].bad THEN e ELSE [b EXCEPT !.pc = "done"]

\* a panic inside the tensor operators of a call
NdBad(t) ==
    \/ t.z # << >> /\ t.z[1].bad
    \/ t.xgrad # << >> /\ t.xgrad[1].bad
    \/ t.ygrad # << >> /\ t.ygrad[1].bad

\* inputs: from_ndarray(array![...]) of these shapes, filled with ones or
\* with 1, 2, 3, ... in row-major order
NdShapes == { <<1>>, <<3>>, <<1, 1>>, <<1, 3>>, <<2, 1>>, <<2, 3>> }
LinearIndex(i, shape) ==
    IF Len(shape) = 1 THEN i[1] ELSE i[1] * shape[2] + i[2]
NdInputs ==
    {Tensor(sh, [i \in Indices(sh) |-> 1]) : sh \in NdShapes}
        \cup {Tensor(sh, [i \in Indices(sh) |-> 1 + LinearIndex(i, sh)]) : sh \in NdShapes}

InitNd ==
    /\ leaves = << >>
    /\ ops = << >>
    /\ root = 0
    /\ data_map = << >>
    /\ grad_map = << >>
    /\ bw_trace = << >>
    /\ nsets = 0
    /\ panicked = FALSE
    /\ ctx_data_map = EmptyMap
    /\ gradient_map = EmptyMap
    /\ evaluated = FALSE
    /\ ctx_last = [call |-> "none", root |-> 0]
    /\ ncalls = 0
    /\ handles = NoHandles
    /\ last_sort = NoSort
    /\ \E x \in NdInputs, y \in NdInputs, op \in {"add", "sub", "mul"} :
        nd = [pc |-> "built", op |-> op, x |-> x, y |-> y, xrg |-> FALSE, yrg |-> FALSE,
              z |-> << >>, xgrad |-> << >>, ygrad |-> << >>]

NdFrame == UNCHANGED <<leaves, ops, nsets, var_vars, ctx_vars, handles, last_sort>>

\* set_requires_grad(true) on a leaf, before the op is used
NdSetRequiresGrad ==
    /\ ~panicked
    /\ nd.pc = "built"
    /\ \/ ~nd.xrg /\ nd' = [nd EXCEPT !.xrg = TRUE]
       \/ ~nd.yrg /\ nd' = [nd EXCEPT !.yrg = TRUE]
    /\ UNCHANGED panicked
    /\ NdFrame

\* z.eval()
NdEval ==
    /\ ~panicked
    /\ nd.pc = "built"
    /\ nd' = nd_eval(nd)
    /\ panicked' = NdBad(nd')
    /\ NdFrame

\* z.backward(), once per graph
NdBackward ==
    /\ ~panicked
    /\ nd.pc \in {"built", "evaluated"}
    /\ nd' = nd_backward(nd)
    /\ panicked' = NdBad(nd')
    /\ NdFrame

NextNd == NdSetRequiresGrad \/ NdEval \/ NdBackward

SpecNd == InitNd /\ [][NextNd]_vars

\* matrices for dot: from_ndarray(array![[...], ...]) of shapes [m, k] and
\* [k, n], filled with ones or with 1, 2, 3, ... in row-major order
MaxDim == 2
Matrices(rows, cols) ==
    {Tensor(<<rows, cols>>, [i \in Indices(<<rows, cols>>) |-> 1]),
     Tensor(<<rows, cols>>, [i \in Indices(<<rows, cols>>) |-> 1 + LinearIndex(i, <<rows, cols>>)])}

InitDot ==
    /\ leaves = << >>
    /\ ops = << >>
    /\ root = 0
    /\ data_map = << >>
    /\ grad_map = << >>
    /\ bw_trace = << >>
    /\ nsets = 0
    /\ panicked = FALSE
    /\ ctx_data_map = EmptyMap
    /\ gradient_map = EmptyMap
    /\ evaluated = FALSE
    /\ ctx_last = [call |-> "none", root |-> 0]
    /\ ncalls = 0
    /\ handles = NoHandles
    /\ last_sort = NoSort
    /\ \E m \in 1..MaxDim, k \in 1..MaxDim, n \in 1..MaxDim :
        \E x \in Matrices(m, k), y \in Matrices(k, n) :
            nd = [pc |-> "built", op |-> "dot", x |-> x, y |-> y, xrg |-> FALSE, yrg |-> FALSE,
                  z |-> << >>, xgrad |-> << >>, ygrad |-> << >>]

SpecDot == InitDot /\ [][NextNd]_vars

\* div on its own: two tensors of one shape, the divisor without zeros
DivVals == {-2, 1, 4}
DivShapes == { <<2>>, <<1, 2>> }
DivInputs == UNION {{Tensor(sh, v) : v \in [Indices(sh) -> DivVals]} : sh \in DivShapes}

InitDiv ==
    /\ leaves = << >>
    /\ ops = << >>
    /\ root = 0
    /\ data_map = << >>
    /\ grad_map = << >>
    /\ bw_trace = << >>
    /\ nsets = 0
    /\ panicked = FALSE
    /\ ctx_data_map = EmptyMap
    /\ gradient_map = EmptyMap
    /\ evaluated = FALSE
    /\ ctx_last = [call |-> "none", root |-> 0]
    /\ ncalls = 0
    /\ handles = NoHandles
    /\ last_sort = NoSort
    /\ \E a \in DivInputs, b \in DivInputs :
        /\ a.shape = b.shape
        /\ nd = [pc |-> "args", a |-> a, b |-> b, q |-> << >>]

\* a / b
NdDiv ==
    /\ ~panicked
    /\ nd.pc = "args"
    /\ nd' = [nd EXCEPT !.q = << nd_div(nd.a, nd.b) >>, !.pc = "divided"]
    /\ panicked' = nd'.q[1].bad
    /\ NdFrame

NextDiv == NdDiv

SpecDiv == InitDiv /\ [][NextDiv]_vars

\* compute_broadcasted_gradients on its own: data of an input and a
\* parent_grad of a shape data's shape broadcasts to
UnbroadcastShapes == NdShapes \cup { <<2>>, <<1, 2>>, <<2, 2>>, <<3, 1>>, <<3, 3>> }
UnbroadcastInputs ==
    {Tensor(sh, [i \in Indices(sh) |-> 1]) : sh \in UnbroadcastShapes}
        \cup {Tensor(sh, [i \in Indices(sh) |-> 1 + LinearIndex(i, sh)]) : sh \in UnbroadcastShapes}

InitUnbroadcast ==
    /\ leaves = << >>
    /\ ops = << >>
    /\ root = 0
    /\ data_map = << >>
    /\ grad_map = << >>
    /\ bw_trace = << >>
    /\ nsets = 0
    /\ panicked = FALSE
    /\ ctx_data_map = EmptyMap
    /\ gradient_map = EmptyMap
    /\ evaluated = FALSE
    /\ ctx_last = [call |-> "none", root |-> 0]
    /\ ncalls = 0
    /\ handles = NoHandles
    /\ last_sort = NoSort
    /\ \E data \in UnbroadcastInputs, parent_grad \in UnbroadcastInputs :
        /\ BroadcastOk(data.shape, parent_grad.shape)
        /\ BroadcastShape(data.shape, parent_grad.shape) = parent_grad.shape
        /\ nd = [pc |-> "args", data |-> data, parent_grad |-> parent_grad, out |-> << >>]

\* compute_broadcasted_gradients(&data, &parent_grad)
NdUnbroadcast ==
    /\ ~panicked
    /\ nd.pc = "args"
    /\ nd' = [nd EXCEPT !.out = << compute_broadcasted_gradients(nd.data, nd.parent_grad) >>,
                        !.pc = "reduced"]
    /\ panicked' = nd'.out[1].bad
    /\ NdFrame

NextUnbroadcast == NdUnbroadcast

SpecUnbroadcast == InitUnbroadcast /\ [][NextUnbroadcast]_vars

\* ------------------------------------------------------- reference notions
\* The value and the derivative of the expression a node stands for, by the
\* rules of calculus on the expression itself (no traversal, no maps).
RECURSIVE Value(_)
Value(n) ==
    IF ~IsOp(n) THEN leaves[n].data
    ELSE CASE Op(n).var_type = "OpAdd" -> Value(Op(n).l) + Value(Op(n).r)
           [] Op(n).var_type = "OpSub" -> Value(Op(n).l) - Value(Op(n).r)
           [] Op(n).var_type = "OpMul" -> Value(Op(n).l) * Value(Op(n).r)
           [] Op(n).var_type = "OpDiv" -> i32_div(Value(Op(n).l), Value(Op(n).r))

RECURSIVE Deriv(_, _)
Deriv(n, x) ==
    IF ~IsOp(n) THEN (IF n = x THEN 1 ELSE 0)
    ELSE IF Op(n).var_type = "OpAdd" THEN Deriv(Op(n).l, x) + Deriv(Op(n).r, x)
    ELSE Deriv(Op(n).l, x) * Value(Op(n).r) + Value(Op(n).l) * Deriv(Op(n).r, x)

\* nodes reachable from n (n included)
RECURSIVE Reach(_)
Reach(n) == IF IsOp(n) THEN {n} \cup Reach(Op(n).l) \cup Reach(Op(n).r) ELSE {n}

\* some leaf under n is marked requires_grad now
RECURSIVE Marked(_)
Marked(n) ==
    IF IsOp(n) THEN Marked(Op(n).l) \/ Marked(Op(n).r) ELSE leaves[n].requires_grad

\* The flags in the graph under n are those of an assignment of requires_grad
\* to the leaves made before any op was built: every operand copy carries
\* the OR of the flags of the leaves under it.
FlagsFromLeaves(n) ==
    \A m \in Reach(n) : IsOp(m) =>
        /\ Op(m).lrg = Marked(Op(m).l)
        /\ Op(m).rrg = Marked(Op(m).r)

\* backward() was the last call on the root and returned
BackwardDone == root # 0 /\ grad_map # << >> /\ ~panicked

RECURSIVE Pow(_, _)
Pow(b, e) == IF e = 0 THEN 1 ELSE b * Pow(b, e - 1)

\* n if y is the chain x op x op ... op x of n copies of leaf x (n >= 2),
\* built left to right as x.op(x).op(x)..., else 0
RECURSIVE ChainLen(_, _, _)
ChainLen(y, x, var_type) ==
    IF ~IsOp(y) THEN 0
    ELSE IF Op(y).var_type # var_type \/ Op(y).r # x THEN 0
    ELSE IF Op(y).l = x THEN 2
    ELSE LET c == ChainLen(Op(y).l, x, var_type) IN IF c = 0 THEN 0 ELSE c + 1

\* the Context right after the leaves were made: leaf data, no gradient
FreshCtx ==
    [data_map |-> [n \in LeafIds |-> leaves[n].data], gradient_map |-> EmptyMap,
     panicked |-> FALSE]

\* nodes under r that some operand copy (or the root handle) marks requires_grad
RgNodes(r) ==
    {r} \cup {n \in Reach(r) : \E m \in Reach(r) :
                IsOp(m) /\ \E i \in 1..2 : deps(m)[i].id = n /\ deps(m)[i].requires_grad}

\* the Context after no call, or after one eval_graph or backward call
PriorCtxs ==
    {FreshCtx} \cup {eval_graph(FreshCtx, r) : r \in Ids}
               \cup {ctx_backward(FreshCtx, r) : r \in Ids}

CtxBackwardDone == ctx_last.call = "backward" /\ ~panicked
CtxEvalDone == ctx_last.call # "none" /\ ~panicked

\* number of paths from r to n, parallel operand slots counted separately
RECURSIVE Paths(_, _)
Paths(r, n) ==
    IF r = n THEN 1
    ELSE IF IsOp(r) THEN Paths(Op(r).l, n) + Paths(Op(r).r, n) ELSE 0

\* the expression under n written out in postfix, left operand first: every
\* node once per path, after its operands on that path
RECURSIVE Postfix(_)
Postfix(n) == IF IsOp(n) THEN Postfix(Op(n).l) \o Postfix(Op(n).r) \o << n >> ELSE << n >>

\* s without the repeated occurrences
RECURSIVE FirstOccurrences(_)
FirstOccurrences(s) ==
    IF s = << >> THEN << >>
    ELSE LET init == SubSeq(s, 1, Len(s) - 1)
             last == s[Len(s)]
         IN IF \E i \in 1..Len(init) : init[i] = last
            THEN FirstOccurrences(init)
            ELSE Append(FirstOccurrences(init), last)

\* ------------------------------------------------------------------ claims

\* C1: after R.backward() on a DAG built with add and mul (shared
\* sub-expressions allowed), R.grad_wrt(x) of every leaf x marked
\* requires_grad is dR/dx at the leaf values.
C1_TrueDerivative ==
    (BackwardDone /\ IsOp(root) /\ FlagsFromLeaves(root)) =>
        \A x \in Reach(root) :
            (~IsOp(x) /\ leaves[x].requires_grad) => grad_wrt(x) = << Deriv(root, x) >>

\* C2: backward(R) returns without a panic for every assignment of
\* requires_grad flags to the leaves, also when a non-root op node has no
\* operand that requires a gradient.
C2_BackwardCompletes ==
    (root # 0 /\ FlagsFromLeaves(root)) => ~panicked

\* C4: when add or mul builds an op node, the node's requires_grad is the OR
\* of the flags its two operands have at that moment.
C4_RequiresGradIsOr ==
    [][Len(ops') = Len(ops) + 1 =>
        LET o == ops'[Len(ops')]
        IN o.requires_grad = (requires_grad(o.l) \/ requires_grad(o.r))]_vars

C4_Witness ==
    \E j \in 1..Len(ops) :
        /\ nsets = 1
        /\ ops[j].lrg # ops[j].rrg
        /\ ops[j].requires_grad

\* C5: set_requires_grad on an op node is rejected and leaves the node's
\* requires_grad flag as it was.
C5_OpFlagKept ==
    [][\A j \in 1..Len(ops) : ops'[j].requires_grad = ops[j].requires_grad]_vars

\* C6: for y = x.mul(x).mul(x)... of n >= 2 copies of a leaf x marked
\* requires_grad, after y.backward() the gradient of x is n * x^(n-1).
C6_MulChain ==
    \A x \in LeafIds :
        (BackwardDone /\ FlagsFromLeaves(root) /\ leaves[x].requires_grad
            /\ ChainLen(root, x, "OpMul") >= 2) =>
        grad_wrt(x) = << ChainLen(root, x, "OpMul")
                         * Pow(leaves[x].data, ChainLen(root, x, "OpMul") - 1) >>

C6_Witness ==
    \E x \in LeafIds :
        /\ BackwardDone /\ FlagsFromLeaves(root) /\ leaves[x].requires_grad
        /\ leaves[x].data = 3
        /\ ChainLen(root, x, "OpMul") = 3
        /\ grad_wrt(x) = << 3 * leaves[x].data * leaves[x].data >>


\* C3: after Context::eval_graph(R), data_map holds a value for every node
\* reachable from R; an Add/Sub/Mul/Div node's value is (left value) op
\* (right value), operands in construction order, from the leaf values.
C3_EvalValues ==
    CtxEvalDone =>
        \A n \in Reach(ctx_last.root) :
            /\ Has(ctx_data_map, n)
            /\ ctx_data_map[n] = Value(n)
            /\ IsOp(n) =>
                ctx_data_map[n] =
                    CASE Op(n).var_type = "OpAdd" ->
                            ctx_data_map[Op(n).l] + ctx_data_map[Op(n).r]
                      [] Op(n).var_type = "OpSub" ->
                            ctx_data_map[Op(n).l] - ctx_data_map[Op(n).r]
                      [] Op(n).var_type = "OpMul" ->
                            ctx_data_map[Op(n).l] * ctx_data_map[Op(n).r]
                      [] Op(n).var_type = "OpDiv" ->
                            i32_div(ctx_data_map[Op(n).l], ctx_data_map[Op(n).r])

C3_Witness ==
    /\ CtxEvalDone
    /\ IsOp(ctx_last.root)
    /\ Op(ctx_last.root).var_type = "OpDiv"
    /\ IsOp(Op(ctx_last.root).l)
    /\ Op(Op(ctx_last.root).l).var_type = "OpSub"
    /\ ctx_data_map[Op(ctx_last.root).l] = -1
    /\ ctx_data_map[ctx_last.root] = 0

\* C7: for y = x.add(x).add(x)... of n >= 2 copies of a leaf x marked
\* requires_grad, after Context::backward(y) grad_of(x) is n times the unit
\* gradient.
C7_AddChain ==
    \A x \in LeafIds :
        (CtxBackwardDone /\ FlagsFromLeaves(ctx_last.root) /\ leaves[x].requires_grad
            /\ ChainLen(ctx_last.root, x, "OpAdd") >= 2) =>
        /\ Has(gradient_map, x)
        /\ gradient_map[x] = ChainLen(ctx_last.root, x, "OpAdd") * get_initial_grad(0)

C7_Witness ==
    \E x \in LeafIds :
        /\ CtxBackwardDone /\ FlagsFromLeaves(ctx_last.root) /\ leaves[x].requires_grad
        /\ ChainLen(ctx_last.root, x, "OpAdd") = 3
        /\ gradient_map[x] = 3

\* C8: gradients of Context::backward(R) do not accumulate across passes:
\* for every node N reachable from R with requires_grad, grad_of(N) after
\* backward(R) is the same whether or not other calls were made earlier on
\* the Context: it is what backward(R) gives after no earlier call, after an
\* earlier eval_graph and after an earlier backward (of R or another root).
C8_NoAccumulation ==
    CtxBackwardDone =>
        \A c \in PriorCtxs :
            LET f == ctx_backward(c, ctx_last.root)
            IN (~c.panicked /\ ~f.panicked) =>
                \A n \in RgNodes(ctx_last.root) :
                    /\ Has(gradient_map, n)
                    /\ gradient_map[n] = f.gradient_map[n]

\* C9: after Context::backward(R) a node that is not reachable from R has no
\* gradient_map entry, also when an earlier backward gave it one.
C9_UnreachableHasNoGrad ==
    CtxBackwardDone => \A n \in Ids \ Reach(ctx_last.root) : ~Has(gradient_map, n)


\* C10: for add_backward, sub_backward and mul_backward on two inputs of
\* different, broadcast-compatible shapes, after backward every input that
\* requires a gradient has a grad of exactly that input's shape.
C10_GradHasInputShape ==
    (nd.pc = "done" /\ nd.x.shape # nd.y.shape /\ BroadcastOk(nd.x.shape, nd.y.shape)) =>
        /\ ~panicked
        /\ nd.xrg => (nd.xgrad # << >> /\ nd.xgrad[1].shape = nd.x.shape)
        /\ nd.yrg => (nd.ygrad # << >> /\ nd.ygrad[1].shape = nd.y.shape)

\* C11: for Z = X.dot(Y) with X of shape [m, k] and Y of shape [k, n], both
\* requiring a gradient and with no prior gradient, after Z.backward()
\* X.grad is dZ . Yt (shape [m, k]) and Y.grad is Xt . dZ (shape [k, n]),
\* dZ being the seed of ones in Z's shape.
C11_DotGradients ==
    (nd.pc = "done" /\ nd.op = "dot" /\ nd.xrg /\ nd.yrg) =>
        LET dZ == nd_get_default_init_grad(nd.z[1])
        IN /\ ~panicked
           /\ nd.xgrad = << nd_dot(dZ, nd_t(nd.y)) >>
           /\ nd.xgrad[1].shape = nd.x.shape
           /\ nd.ygrad = << nd_dot(nd_t(nd.x), dZ) >>
           /\ nd.ygrad[1].shape = nd.y.shape

\* C12: NDArray div is elementwise division: for same-shape a and b, b
\* without zeros, div(a, b) has a's shape and at each position the quotient
\* a[i] / b[i], that is the number q with q * b[i] = a[i].
C12_DivIsQuotient ==
    nd.pc = "divided" =>
        /\ ~panicked
        /\ nd.q[1].shape = nd.a.shape
        /\ \A i \in Indices(nd.a.shape) : nd.q[1].v[i] * nd.b.v[i] = nd.a.v[i]

\* the root is an op over two leaves; backward() on it returned
LeafOpBackwardDone ==
    BackwardDone /\ IsOp(root) /\ ~IsOp(Op(root).l) /\ ~IsOp(Op(root).r)

\* after z.backward(), z built over leaves: a leaf has a gradient exactly if
\* some operand slot of z that holds it was taken while it required one
GradFollowsSnapshot ==
    LeafOpBackwardDone =>
        \A i \in 1..2 :
            LET x == deps(root)[i].id
            IN (grad_wrt(x) # << >>) =
                  (\E k \in 1..2 : deps(root)[k].id = x /\ deps(root)[k].requires_grad)

\* C13: requires_grad is snapshotted at construction. Toggling a leaf's
\* flag changes no op (z.requires_grad() and the operand copies stay as
\* built), and z.backward() on z = x.add(y) or x.mul(y) records a gradient
\* for a leaf only through operand copies taken while the leaf required one:
\* built with both flags false, z.grad_wrt(x) is None whatever x's flag is
\* now.
C13_SnapshotAtConstruction ==
    [][/\ (Len(leaves') = Len(leaves) /\ leaves' # leaves) => ops' = ops
       /\ GradFollowsSnapshot']_vars

C13_Witness ==
    /\ LeafOpBackwardDone
    /\ ~Op(root).lrg /\ ~Op(root).rrg /\ ~Op(root).requires_grad
    /\ leaves[Op(root).l].requires_grad
    /\ grad_wrt(Op(root).l) = << >>

\* C14: forward evaluation is idempotent. Once eval or val was called on a
\* handle, its data_map holds every node reachable from it, and no later
\* call (eval or val on the same handle, on another root sharing
\* sub-expressions, or the building of new nodes) changes the value of any of
\* these nodes or the value val returns for the handle.
C14_EvalIdempotent ==
    [][\A h \in Ids : handles[h].called =>
          /\ handles[h].data_map # << >>
          /\ handles'[h].data_map # << >>
          /\ \A n \in Reach(h) :
                /\ Has(handles[h].data_map[1], n)
                /\ Has(handles'[h].data_map[1], n)
                /\ handles'[h].data_map[1][n] = handles[h].data_map[1][n]
          /\ val_result(handles'[h], h) = val_result(handles[h], h)]_vars

\* two roots sharing a sub-expression, both evaluated, the first one twice
\* over: z = x op x, a = z op z, z.val(), a.eval(), z.eval()
C14_Witness ==
    /\ Len(ops) = 2
    /\ Op(MaxLeaves + 2).l = MaxLeaves + 1
    /\ handles[MaxLeaves + 1].called /\ handles[MaxLeaves + 2].called
    /\ val_result(handles[MaxLeaves + 1], MaxLeaves + 1) = << Value(MaxLeaves + 1) >>
    /\ val_result(handles[MaxLeaves + 2], MaxLeaves + 2) = << Value(MaxLeaves + 2) >>

\* how often node n occurs in the sequence s
Count(s, n) == Cardinality({i \in 1..Len(s) : s[i] = n})

\* C15: during one Var::backward(R) call the backward handler of each op
\* node reachable from R is invoked exactly once, however many paths lead
\* from R to it.
C15_HandlerOnce ==
    BackwardDone => \A n \in Reach(root) : IsOp(n) => Count(bw_trace, n) = 1

\* C16: during Var::backward(R) the handlers run in reverse-topological
\* order: whenever the handler of an op node N is invoked, the handler of
\* every op node reachable from R that has N as a dependency was invoked
\* before, so N's gradient already holds every parent's contribution.
C16_ReverseTopologicalOrder ==
    BackwardDone =>
        \A N \in Reach(root), P \in Reach(root) :
            (IsOp(N) /\ IsOp(P) /\ (Op(P).l = N \/ Op(P).r = N)) =>
                \A i \in 1..Len(bw_trace) :
                    bw_trace[i] = N => \E j \in 1..(i - 1) : bw_trace[j] = P

\* s holds every node reachable from r exactly once, each after its operands
UniqueTopological(s, r) ==
    /\ \A i \in 1..Len(s) : s[i] \in Reach(r)
    /\ \A n \in Reach(r) : Count(s, n) = 1
    /\ \A i \in 1..Len(s) : IsOp(s[i]) =>
          /\ \E j \in 1..(i - 1) : s[j] = Op(s[i]).l
          /\ \E j \in 1..(i - 1) : s[j] = Op(s[i]).r

\* C17: the topological sort in unique mode (allow_revisit = false) from R
\* returns every node reachable from R exactly once, every node after all
\* of its dependencies, dependencies explored left to right (the nodes in
\* the order of their first occurrence in the postfix form of R).
C17_UniqueSort ==
    (last_sort.entry # 0 /\ ~last_sort.allow_revisit) =>
        /\ UniqueTopological(last_sort.var, last_sort.entry)
        /\ UniqueTopological(last_sort.ctx, last_sort.entry)
        /\ last_sort.var = FirstOccurrences(Postfix(last_sort.entry))
        /\ last_sort.ctx = FirstOccurrences(Postfix(last_sort.entry))

\* z = x.add(y), a = z.add(z): the order is x, y, z, a
C17_Witness ==
    /\ last_sort.entry = MaxLeaves + 2 /\ ~last_sort.allow_revisit
    /\ Len(leaves) = 2
    /\ Op(MaxLeaves + 1).l = 1 /\ Op(MaxLeaves + 1).r = 2
    /\ Op(MaxLeaves + 2).l = MaxLeaves + 1 /\ Op(MaxLeaves + 2).r = MaxLeaves + 1
    /\ last_sort.ctx = << 1, 2, MaxLeaves + 1, MaxLeaves + 2 >>
    /\ last_sort.var = last_sort.ctx

\* C18: the topological sort in revisit mode (allow_revisit = true) from R
\* returns each node as many times as there are paths from R to it
\* (parallel operand slots counted separately), each occurrence after the
\* occurrences of its dependencies on that path: the postfix form of R.
C18_RevisitSort ==
    (last_sort.entry # 0 /\ last_sort.allow_revisit) =>
        /\ \A i \in 1..Len(last_sort.ctx) : last_sort.ctx[i] \in Reach(last_sort.entry)
        /\ \A n \in Reach(last_sort.entry) : Count(last_sort.ctx, n) = Paths(last_sort.entry, n)
        /\ last_sort.ctx = Postfix(last_sort.entry)

\* z = x.add(y), a = z.add(z): the order is x, y, z, x, y, z, a
C18_Witness ==
    /\ last_sort.entry = MaxLeaves + 2 /\ last_sort.allow_revisit
    /\ Len(leaves) = 2
    /\ Op(MaxLeaves + 1).l = 1 /\ Op(MaxLeaves + 1).r = 2
    /\ Op(MaxLeaves + 2).l = MaxLeaves + 1 /\ Op(MaxLeaves + 2).r = MaxLeaves + 1
    /\ last_sort.ctx = << 1, 2, MaxLeaves + 1, 1, 2, MaxLeaves + 1, MaxLeaves + 2 >>

\* the flags under r are those of the leaves, on the handles and on the copies
FlagsSettled(r) ==
    /\ FlagsFromLeaves(r)
    /\ \A n \in Reach(r) : requires_grad(n) = Marked(n)

\* gradient_map after eval_graph(r): zero for the nodes under r that require
\* a gradient, no entry for the others
ZeroOrAbsent(r) ==
    \A n \in Reach(r) :
        IF requires_grad(n) THEN Has(gradient_map, n) /\ gradient_map[n] = 0
        ELSE ~Has(gradient_map, n)

EvalRootFlagsSettled == FlagsSettled(ctx_last.root)
EvalRootZeroOrAbsent == ZeroOrAbsent(ctx_last.root)

\* C19: after Context::eval_graph(R) (also through value_of), in whatever
\* state of the context the call was made, gradient_map holds the zero
\* gradient for every node reachable from R that requires a gradient and no
\* entry for any reachable node that does not.
C19_EvalGraphZeroOrAbsent ==
    [][(ncalls' # ncalls /\ ctx_last'.call = "eval_graph" /\ ~panicked'
            /\ EvalRootFlagsSettled')
        => EvalRootZeroOrAbsent']_vars

\* C20: compute_broadcasted_gradients(data, parent_grad) returns a tensor
\* of exactly data's shape whenever data's shape broadcasts to
\* parent_grad's shape.
C20_UnbroadcastShape ==
    nd.pc = "reduced" => (~panicked /\ nd.out[1].shape = nd.data.shape)

\* C21: reading a value does not disturb gradients: a Context::value_of(N)
\* call made after Context::backward(R) leaves every gradient_map entry as
\* it was, so grad_of returns the same gradient before and after the read.
C21_ValueOfKeepsGradients ==
    [][(ctx_last.call = "backward" /\ CtxValueOf /\ ~panicked')
        => gradient_map' = gradient_map]_vars

=============================================================================
